---- MODULE Spec2Model ----
(***************************************************************************)
(* Verification models of notebooks of the repository:                     *)
(*   basic_api_examples/callback_newnode.ipynb   (SpecTree)                *)
(*   modeling_examples/max_flow.ipynb            (SpecFlow, SpecFail)      *)
(*   modeling_examples/unitcommitment_indicators.ipynb (SpecUC)            *)
(*   the n_queens notebook                       (SpecQueens)              *)
(*   the statuses of a solve in four notebooks   (SpecStatus)              *)
(*   callback_newnode.ipynb, several threads     (SpecThreads)             *)
(* Each notebook is an independent script; each specification drives the   *)
(* variables of its own notebook and leaves the others at their idle value.*)
(***************************************************************************)
EXTENDS Integers, Sequences, FiniteSets, TLC

VARIABLES
    pc,            \* position of the running notebook
    \* ---- callback_newnode.ipynb
    left,          \* dict: parent -> left child
    right,         \* dict: parent -> right child
    nodes,         \* dict: node id -> label
    card_subtree,  \* dict: node id -> cardinality of its subtree
    T,             \* the networkx graph handed to the callback as data object
    pos,           \* dict: node id -> plot position
    prob,          \* the xpress problem p (callback and controls)
    calls,         \* the newnode callbacks the Optimizer has issued, in order
    \* ---- max_flow.ipynb
    flow,          \* value of the binary variable of each directed arc
    fixed,         \* number of nodes whose outgoing arcs the search has fixed
    num_paths,     \* int(p.attributes.objval)
    paths,         \* the list of traced paths
    failed,        \* the nodes of the network that have failed
    \* ---- unitcommitment_indicators.ipynb
    unit,          \* the unit u whose rows are followed
    work,          \* work[u,t]
    start,         \* start[u,t]
    stop,          \* stop[u,t]
    period,        \* number of periods whose variables the search has fixed
    indicators,    \* whether the indicator constraints have been added
    \* ---- n_queens notebook
    nq,            \* n, the board size
    place,         \* place[i][j]: value of the binary variable of cell (i, j)
    row,           \* number of rows whose variables the search has fixed
    \* ---- the statuses of a solve, in any notebook
    notebook,      \* the notebook that runs
    solvestatus,   \* p.attributes.solvestatus
    solstatus,     \* p.attributes.solstatus
    optimize_calls,\* number of calls of optimize() so far
    executed,      \* source lines of the statements run after optimize()
    \* ---- callback_newnode.ipynb with several solver threads
    running        \* the invocations of storeBBnode that have not returned

treeVars == <<left, right, nodes, card_subtree, T, pos, prob, calls>>
flowVars == <<flow, fixed, num_paths, paths, failed>>
ucVars   == <<unit, work, start, stop, period, indicators>>
queenVars == <<nq, place, row>>
statusVars == <<notebook, solvestatus, solstatus, optimize_calls, executed>>
threadVars == <<running>>
vars     == <<pc, treeVars, flowVars, ucVars, queenVars, statusVars, threadVars>>

Idle == <<>>

TreeIdle == /\ left = Idle /\ right = Idle /\ nodes = Idle /\ card_subtree = Idle
            /\ T = Idle /\ pos = Idle /\ prob = Idle /\ calls = Idle
FlowIdle == /\ flow = Idle /\ fixed = 0 /\ num_paths = 0 /\ paths = Idle
            /\ failed = {}
UCIdle   == /\ unit = 0 /\ work = Idle /\ start = Idle /\ stop = Idle
            /\ period = 0 /\ indicators = FALSE
QueensIdle == /\ nq = 0 /\ place = Idle /\ row = 0
StatusIdle == /\ notebook = "" /\ solvestatus = "" /\ solstatus = ""
              /\ optimize_calls = 0 /\ executed = Idle
ThreadsIdle == running = {}

(***************************************************************************)
(*                       callback_newnode.ipynb                            *)
(***************************************************************************)

\* Largest node number the Optimizer hands out in the model.
MaxNode == 5

NodeIds  == 1..MaxNode
\* Binary branching: 0 is the left branch, 1 the right branch.
Branches == 0..1

\* The value of the maxnode control, and of the threads control.
MAXNODE == 10
THREADS == 1

EmptyDict == <<>>

\* d[k] = v on a Python dict: insert or overwrite.
DictSet(d, k, v) == [x \in DOMAIN d \cup {k} |-> IF x = k THEN v ELSE d[x]]

\* len(d)
DictLen(d) == Cardinality(DOMAIN d)

\* State after the set-up cell, the moment p.optimize() is entered.
InitTree ==
    /\ pc = "optimize"
    /\ T = [nodes |-> {}, edges |-> {}, pos |-> EmptyDict]
    /\ card_subtree = EmptyDict
    /\ pos = EmptyDict
    /\ left = EmptyDict
    /\ right = EmptyDict
    /\ nodes = (1 :> 1)
    /\ prob = [cbnewnode |-> "storeBBnode", data |-> "T",
               maxnode |-> MAXNODE, threads |-> THREADS]
    /\ calls = <<>>
    /\ FlowIdle /\ UCIdle /\ QueensIdle /\ StatusIdle /\ ThreadsIdle

\* Mutants of storeBBnode.
storeBBnode_swapped(parent, newnode, branch) ==
    /\ nodes' = DictSet(nodes, newnode, DictLen(nodes) + 1)
    /\ IF branch = 1
         THEN left' = DictSet(left, parent, newnode) /\ right' = right
         ELSE right' = DictSet(right, parent, newnode) /\ left' = left
    /\ UNCHANGED <<prob, T, card_subtree, pos>>

storeBBnode_len(parent, newnode, branch) ==
    /\ nodes' = DictSet(nodes, newnode, DictLen(nodes))
    /\ IF branch = 0
         THEN left' = DictSet(left, parent, newnode) /\ right' = right
         ELSE right' = DictSet(right, parent, newnode) /\ left' = left
    /\ UNCHANGED <<prob, T, card_subtree, pos>>

storeBBnode_addsT(parent, newnode, branch) ==
    /\ nodes' = DictSet(nodes, newnode, DictLen(nodes) + 1)
    /\ IF branch = 0
         THEN left' = DictSet(left, parent, newnode) /\ right' = right
         ELSE right' = DictSet(right, parent, newnode) /\ left' = left
    /\ T' = [T EXCEPT !.nodes = @ \cup {newnode}]
    /\ UNCHANGED <<prob, card_subtree, pos>>

\* def storeBBnode(prob, Tree, parent, newnode, branch)
storeBBnode(parent, newnode, branch) ==
    /\ nodes' = DictSet(nodes, newnode, DictLen(nodes) + 1)
    /\ IF branch = 0
         THEN left' = DictSet(left, parent, newnode) /\ right' = right
         ELSE right' = DictSet(right, parent, newnode) /\ left' = left
    /\ UNCHANGED <<prob, T, card_subtree, pos>>

\* The Optimizer creates a node during p.optimize() and calls the callback:
\* the parent is a node it already has, the new node has a fresh number, and
\* each branch of a parent is created once.
NewNode ==
    /\ pc = "optimize"
    /\ \E parent \in DOMAIN nodes, newnode \in NodeIds \ DOMAIN nodes,
          branch \in Branches :
          /\ \A i \in 1..Len(calls) :
                ~(calls[i].parent = parent /\ calls[i].branch = branch)
          /\ calls' = Append(calls, [parent |-> parent, newnode |-> newnode,
                                     branch |-> branch])
          /\ storeBBnode(parent, newnode, branch)
    /\ UNCHANGED <<pc, flowVars, ucVars, queenVars, statusVars, threadVars>>

\* p.optimize() returns (the node limit, or the end of the search).
OptimizeReturns ==
    /\ pc = "optimize"
    /\ pc' = "solved"
    /\ UNCHANGED <<treeVars, flowVars, ucVars, queenVars, statusVars, threadVars>>

\* Mutant of postorder_count: the right branch adds the left child's count.
RECURSIVE postorder_count_copied(_, _, _)
postorder_count_copied(cs, node, fuel) ==
    IF fuel = 0 THEN cs
    ELSE
      LET hasL  == node \in DOMAIN left
          cs1   == IF hasL THEN postorder_count_copied(cs, left[node], fuel - 1)
                           ELSE cs
          cardL == IF hasL THEN cs1[left[node]] ELSE 0
          hasR  == node \in DOMAIN right
          cs2   == IF hasR THEN postorder_count_copied(cs1, right[node], fuel - 1)
                           ELSE cs1
          cardR == IF hasR THEN (IF hasL THEN cs2[left[node]] ELSE 0) ELSE 0
      IN  DictSet(cs2, node, 1 + cardL + cardR)

\* def postorder_count(node): the card_subtree dict after the call, given the
\* dict cs before it.  fuel bounds the recursion depth (Python's recursion
\* limit); a tree of MaxNode nodes never exhausts it.
RECURSIVE postorder_count(_, _, _)
postorder_count(cs, node, fuel) ==
    IF fuel = 0 THEN cs
    ELSE
      LET hasL  == node \in DOMAIN left
          cs1   == IF hasL THEN postorder_count(cs, left[node], fuel - 1) ELSE cs
          cardL == IF hasL THEN cs1[left[node]] ELSE 0
          hasR  == node \in DOMAIN right
          cs2   == IF hasR THEN postorder_count(cs1, right[node], fuel - 1) ELSE cs1
          cardR == IF hasR THEN cs2[right[node]] ELSE 0
      IN  DictSet(cs2, node, 1 + cardL + cardR)

\* postorder_count(1)  # assign card_subtree to each node
RunPostorderCount ==
    /\ pc = "solved"
    /\ card_subtree' = postorder_count(card_subtree, 1, MaxNode + 1)
    /\ pc' = "counted"
    /\ UNCHANGED <<left, right, nodes, T, pos, prob, calls, flowVars, ucVars, queenVars, statusVars, threadVars>>

\* Positions are kept in units of 1e-4 (the plot is one unit wide), rounded
\* down: 0.5 is 5000, a width of 1 is 10000.
SCALE == 10000

\* T.add_node(n, pos=xy): the node, with its 'pos' attribute.
add_node(G, n, xy) ==
    [G EXCEPT !.nodes = @ \cup {n}, !.pos = DictSet(@, n, xy)]

\* T.add_edge(u, v) on an undirected graph: the edge, and its end nodes when
\* the graph does not have them yet (without attributes).
add_edge(G, u, v) ==
    [G EXCEPT !.nodes = @ \cup {u, v}, !.edges = @ \cup {{u, v}}]

\* st_width * (alpha * share + (1 - alpha) * card_subtree[child] /
\* card_subtree[node]) with alpha = 0.01; share is .7 on the left and .5 on
\* the right, given here in tenths.
SubtreeWidth(st_width, share10, child, node) ==
    (st_width * (share10 * card_subtree[node] + 990 * card_subtree[child]))
        \div (1000 * card_subtree[node])

\* Mutant of setpos: the special condition of the root is left out.
RECURSIVE setpos_no_root(_, _, _, _, _, _)
setpos_no_root(G, node, curpos, st_width, depth, fuel) ==
    IF fuel = 0 THEN G
    ELSE
      LET G0 == G
          G1 == IF node \in DOMAIN left
                  THEN LET leftwidth == SubtreeWidth(st_width, 7, left[node], node)
                           leftpos   == curpos - (st_width - leftwidth) \div 2
                       IN  setpos_no_root(
                               add_edge(add_node(G0, left[node], <<leftpos, -depth>>),
                                        node, left[node]),
                               left[node], leftpos, leftwidth, depth + 1, fuel - 1)
                  ELSE G0
          G2 == IF node \in DOMAIN right
                  THEN LET rightwidth == SubtreeWidth(st_width, 5, right[node], node)
                           rightpos   == curpos + (st_width - rightwidth) \div 2
                       IN  setpos_no_root(
                               add_edge(add_node(G1, right[node], <<rightpos, -depth>>),
                                        node, right[node]),
                               right[node], rightpos, rightwidth, depth + 1, fuel - 1)
                  ELSE G1
      IN  G2

\* def setpos(T, node, curpos, st_width, depth): the graph after the call,
\* given the graph G before it.  fuel bounds the recursion depth.
RECURSIVE setpos(_, _, _, _, _, _)
setpos(G, node, curpos, st_width, depth, fuel) ==
    IF fuel = 0 THEN G
    ELSE
      LET G0 == IF node = 1 THEN add_node(G, node, <<SCALE \div 2, 1>>) ELSE G
          G1 == IF node \in DOMAIN left
                  THEN LET leftwidth == SubtreeWidth(st_width, 7, left[node], node)
                           leftpos   == curpos - (st_width - leftwidth) \div 2
                       IN  setpos(
                               add_edge(add_node(G0, left[node], <<leftpos, -depth>>),
                                        node, left[node]),
                               left[node], leftpos, leftwidth, depth + 1, fuel - 1)
                  ELSE G0
          G2 == IF node \in DOMAIN right
                  THEN LET rightwidth == SubtreeWidth(st_width, 5, right[node], node)
                           rightpos   == curpos + (st_width - rightwidth) \div 2
                       IN  setpos(
                               add_edge(add_node(G1, right[node], <<rightpos, -depth>>),
                                        node, right[node]),
                               right[node], rightpos, rightwidth, depth + 1, fuel - 1)
                  ELSE G1
      IN  G2

\* setpos(T, 1, 0.5, 1, 0)
RunSetpos ==
    /\ pc = "counted"
    /\ T' = setpos(T, 1, SCALE \div 2, SCALE, 0, MaxNode + 1)
    /\ pc' = "placed"
    /\ UNCHANGED <<left, right, nodes, card_subtree, pos, prob, calls,
                   flowVars, ucVars, queenVars, statusVars, threadVars>>

\* pos = nx.get_node_attributes(T, 'pos'); nx.draw(T, pos, labels=nodes, ...)
Draw ==
    /\ pc = "placed"
    /\ pos' = T.pos
    /\ pc' = "drawn"
    /\ UNCHANGED <<left, right, nodes, card_subtree, T, prob, calls,
                   flowVars, ucVars, queenVars, statusVars, threadVars>>

NextTree == NewNode \/ OptimizeReturns \/ RunPostorderCount \/ RunSetpos \/ Draw

SpecTree == InitTree /\ [][NextTree]_vars

\* ---- storeBBnode called from several threads of the Optimizer.  The
\* statement nodes[newnode] = len(nodes) + 1 first evaluates its right-hand
\* side and then stores it; another invocation may run in between.

\* Largest value of the threads control in the model, and largest node
\* number the Optimizer hands out when several threads run.
MaxThreads == 2
MaxThreadNode == 4

\* Mutant: the label is the length of nodes.
NextLabel_len(nd) == DictLen(nd)

\* len(nodes) + 1
NextLabel(nd) == DictLen(nd) + 1

\* The set-up cell, with p.controls.threads at 1 as in the notebook or at a
\* larger value.
InitThreads ==
    /\ pc = "optimize"
    /\ T = [nodes |-> {}, edges |-> {}, pos |-> EmptyDict]
    /\ card_subtree = EmptyDict
    /\ pos = EmptyDict
    /\ left = EmptyDict
    /\ right = EmptyDict
    /\ nodes = (1 :> 1)
    /\ \E threads \in {THREADS} \cup (1..MaxThreads) :
          prob = [cbnewnode |-> "storeBBnode", data |-> "T",
                  maxnode |-> MAXNODE, threads |-> threads]
    /\ calls = <<>>
    /\ running = {}
    /\ FlowIdle /\ UCIdle /\ QueensIdle /\ StatusIdle

\* A thread of the Optimizer creates a node and enters storeBBnode, which
\* evaluates len(nodes) + 1.
CallbackEvaluates ==
    /\ pc = "optimize"
    /\ Cardinality(running) < prob.threads
    /\ \E parent \in DOMAIN nodes,
          newnode \in (1..MaxThreadNode) \
                        (DOMAIN nodes \cup { r.newnode : r \in running }),
          branch \in Branches :
          /\ \A i \in 1..Len(calls) :
                ~(calls[i].parent = parent /\ calls[i].branch = branch)
          /\ calls' = Append(calls, [parent |-> parent, newnode |-> newnode,
                                     branch |-> branch])
          /\ running' = running \cup
                {[parent |-> parent, newnode |-> newnode, branch |-> branch,
                  value |-> NextLabel(nodes), at |-> "store"]}
    /\ UNCHANGED <<pc, left, right, nodes, prob, T, card_subtree, pos,
                   flowVars, ucVars, queenVars, statusVars>>

\* nodes[newnode] = <the value evaluated>
CallbackStores ==
    /\ pc = "optimize"
    /\ \E r \in running :
          /\ r.at = "store"
          /\ nodes' = DictSet(nodes, r.newnode, r.value)
          /\ running' = (running \ {r}) \cup {[r EXCEPT !.at = "link"]}
    /\ UNCHANGED <<pc, left, right, prob, T, card_subtree, pos, calls,
                   flowVars, ucVars, queenVars, statusVars>>

\* if branch == 0: left[parent] = newnode  else: right[parent] = newnode,
\* and the invocation returns.
CallbackLinks ==
    /\ pc = "optimize"
    /\ \E r \in running :
          /\ r.at = "link"
          /\ IF r.branch = 0
               THEN left' = DictSet(left, r.parent, r.newnode) /\ right' = right
               ELSE right' = DictSet(right, r.parent, r.newnode) /\ left' = left
          /\ running' = running \ {r}
    /\ UNCHANGED <<pc, nodes, prob, T, card_subtree, pos, calls,
                   flowVars, ucVars, queenVars, statusVars>>

\* p.optimize() returns once every callback has.
OptimizeReturnsThreads ==
    /\ pc = "optimize"
    /\ running = {}
    /\ pc' = "solved"
    /\ UNCHANGED <<treeVars, flowVars, ucVars, queenVars, statusVars, threadVars>>

NextThreads ==
    CallbackEvaluates \/ CallbackStores \/ CallbackLinks \/ OptimizeReturnsThreads

SpecThreads == InitThreads /\ [][NextThreads]_vars

(***************************************************************************)
(*                            max_flow.ipynb                               *)
(***************************************************************************)

NNODES == 11
SOURCE == 10
SINK   == 11

\* NODES = list(range(1, 12))
NODES == 1..NNODES

\* Mutants of base_arcs: link (1, 11) left out; a link (7, 11) too many.
base_arcs_no_1_11 ==
    { <<1, 2>>, <<1, 3>>,
      <<2, 3>>, <<2, 8>>, <<2, 9>>,
      <<3, 4>>, <<3, 9>>, <<3, 10>>, <<3, 11>>,
      <<4, 5>>, <<4, 6>>, <<4, 11>>,
      <<5, 9>>, <<5, 11>>,
      <<6, 7>>, <<6, 9>>, <<6, 10>>,
      <<7, 8>>, <<7, 10>>,
      <<8, 10>>,
      <<9, 10>> }

base_arcs_plus_7_11 == base_arcs_no_1_11 \cup { <<1, 11>>, <<7, 11>> }

\* Undirected base arcs
base_arcs ==
    { <<1, 2>>, <<1, 3>>, <<1, 11>>,
      <<2, 3>>, <<2, 8>>, <<2, 9>>,
      <<3, 4>>, <<3, 9>>, <<3, 10>>, <<3, 11>>,
      <<4, 5>>, <<4, 6>>, <<4, 11>>,
      <<5, 9>>, <<5, 11>>,
      <<6, 7>>, <<6, 9>>, <<6, 10>>,
      <<7, 8>>, <<7, 10>>,
      <<8, 10>>,
      <<9, 10>> }

\* Make arcs bidirectional
ARCS == base_arcs \cup { <<a[2], a[1]>> : a \in base_arcs }

\* The nodes m with (n, m) in flow, and those with (m, n) in flow.
HeadsOf == [n \in NODES |-> { m \in NODES : <<n, m>> \in ARCS }]
TailsOf == [n \in NODES |-> { m \in NODES : <<m, n>> \in ARCS }]
Heads(n) == HeadsOf[n]
Tails(n) == TailsOf[n]

\* xp.Sum(flow[(n,m)] for m in NODES if (n,m) in flow): every variable is
\* binary, so the sum is the number of arcs out of n that carry flow.
OutSum(f, n) == Cardinality({ m \in Heads(n) : f[<<n, m>>] = 1 })

\* xp.Sum(flow[(m,n)] for m in NODES if (m,n) in flow)
InSum(f, n) == Cardinality({ m \in Tails(n) : f[<<m, n>>] = 1 })

\* Objective function: number of outgoing flow from SOURCE
Objective(f) == OutSum(f, SOURCE)

\* 1. Conservation: sum incoming = sum outgoing
Conservation(f, n) == InSum(f, n) = OutSum(f, n)

\* 2. Capacity: at most one outgoing unit
Capacity(f, n) == OutSum(f, n) <= 1

\* 3. No return to SOURCE
NoReturn(f) == InSum(f, SOURCE) = 0

Intermediate == NODES \ {SOURCE, SINK}

\* The three constraint sets of the problem.
Feasible(f) ==
    /\ \A n \in Intermediate : Conservation(f, n)
    /\ \A n \in Intermediate : Capacity(f, n)
    /\ NoReturn(f)

\* State after the problem is built, the moment p.optimize() is entered: the
\* search has fixed no variable yet (an arc not yet fixed reads 0).
InitFlow ==
    /\ pc = "optimize"
    /\ flow = [a \in ARCS |-> 0]
    /\ fixed = 0
    /\ num_paths = 0
    /\ paths = <<>>
    /\ failed = {}
    /\ TreeIdle /\ UCIdle /\ QueensIdle /\ StatusIdle /\ ThreadsIdle

\* The intermediate nodes whose conservation row has all its variables fixed
\* once the arcs out of the nodes 1..k are: n and all its neighbours are at
\* most k, and one of them is k.
DecidedAt ==
    [k \in NODES |->
        { n \in Intermediate :
            /\ n <= k /\ \A m \in Heads(n) \cup Tails(n) : m <= k
            /\ (n = k \/ k \in Heads(n) \cup Tails(n)) }]

\* The constraints that fixing the arcs out of node k (to the nodes of out)
\* can violate: no-return and the capacity of k, which only grow as arcs are
\* set to 1; the flow into a head of k, which conservation and capacity keep
\* at most 1; and conservation at the nodes decided at k.
Consistent(f, k, out) ==
    /\ NoReturn(f)
    /\ k \in Intermediate => Capacity(f, k)
    /\ \A n \in out \cap Intermediate : InSum(f, n) <= 1
    /\ \A n \in DecidedAt[k] : Conservation(f, n)

\* What Consistent asks of the arcs out of k alone, read on out and the flow
\* fixed so far; every assignment Consistent accepts passes it, so it only
\* spares building the assignments it rejects.
Promising(k, out) ==
    /\ SOURCE \notin out
    /\ k \in Intermediate => Cardinality(out) <= 1
    /\ \A n \in out \cap Intermediate : InSum(flow, n) = 0

\* The Optimizer's search fixes the binary variables of the arcs out of the
\* next node, keeping an assignment no constraint rules out.
Branch ==
    /\ pc = "optimize"
    /\ fixed < NNODES
    /\ \E out \in SUBSET Heads(fixed + 1) :
          /\ Promising(fixed + 1, out)
          /\ LET f == [a \in ARCS |->
                        IF a[1] = fixed + 1
                          THEN (IF a[2] \in out THEN 1 ELSE 0)
                          ELSE flow[a]]
             IN  /\ Consistent(f, fixed + 1, out)
                 /\ flow' = f
    /\ fixed' = fixed + 1
    /\ UNCHANGED <<pc, num_paths, paths, failed, treeVars, ucVars, queenVars, statusVars, threadVars>>

\* p.optimize() returns with a solution of the problem;
\* num_paths = int(p.attributes.objval)
OptimizeFlow ==
    /\ pc = "optimize"
    /\ fixed = NNODES
    /\ Feasible(flow)
    /\ num_paths' = Objective(flow)
    /\ pc' = "solved"
    /\ UNCHANGED <<flow, fixed, paths, failed, treeVars, ucVars, queenVars, statusVars, threadVars>>

\* The smallest element of a non-empty set of nodes (for m in NODES ... break).
FirstOf(S) == CHOOSE m \in S : \A x \in S : m <= x

\* Mutant of Walk: the loop does not stop at SINK.
RECURSIVE Walk_past_sink(_, _, _, _)
Walk_past_sink(sol, path, curr, fuel) ==
    IF fuel = 0 THEN path
    ELSE LET next == { m \in NODES : <<curr, m>> \in ARCS /\ sol[<<curr, m>>] = 1 }
         IN  IF next = {} THEN path
             ELSE Walk_past_sink(sol, Append(path, FirstOf(next)), FirstOf(next),
                                 fuel - 1)

\* The while loop of the path printing: from curr, follow the first arc with
\* flow until SINK.  The loop does not end when curr has no arc with flow or
\* the arcs cycle; the walk then stops short of SINK after fuel steps.
RECURSIVE Walk(_, _, _, _)
Walk(sol, path, curr, fuel) ==
    IF curr = SINK \/ fuel = 0 THEN path
    ELSE LET next == { m \in NODES : <<curr, m>> \in ARCS /\ sol[<<curr, m>>] = 1 }
         IN  IF next = {} THEN path
             ELSE Walk(sol, Append(path, FirstOf(next)), FirstOf(next), fuel - 1)

\* for n in NODES: if (SOURCE, n) in flow and sol[(SOURCE, n)] > 0.5: ...
RECURSIVE TraceFrom(_, _)
TraceFrom(sol, n) ==
    IF n > NNODES THEN <<>>
    ELSE IF <<SOURCE, n>> \in ARCS /\ sol[<<SOURCE, n>>] = 1
           THEN <<Walk(sol, <<SOURCE, n>>, n, NNODES + 1)>> \o TraceFrom(sol, n + 1)
           ELSE TraceFrom(sol, n + 1)

Last(path) == path[Len(path)]

\* The path printing loop; it hangs when a walk never reaches SINK.
TracePaths ==
    /\ pc = "solved"
    /\ paths' = TraceFrom(flow, 1)
    /\ pc' = IF \A i \in 1..Len(paths') : Last(paths'[i]) = SINK
               THEN "printed" ELSE "hung"
    /\ UNCHANGED <<flow, fixed, num_paths, failed, treeVars, ucVars, queenVars, statusVars, threadVars>>

NextFlow == Branch \/ OptimizeFlow \/ TracePaths

SpecFlow == InitFlow /\ [][NextFlow]_vars

\* ---- The reliability requirement of the problem description: nodes fail.

\* "even if any three other nodes fail"
KFAIL == 3

InitFail ==
    /\ pc = "network"
    /\ failed = {}
    /\ flow = Idle /\ fixed = 0 /\ num_paths = 0 /\ paths = Idle
    /\ TreeIdle /\ UCIdle /\ QueensIdle /\ StatusIdle /\ ThreadsIdle

\* One more node other than SOURCE and SINK fails.
NodeFails ==
    /\ pc = "network"
    /\ Cardinality(failed) < KFAIL
    /\ \E n \in Intermediate \ failed : failed' = failed \cup {n}
    /\ UNCHANGED <<pc, flow, fixed, num_paths, paths, treeVars, ucVars, queenVars, statusVars, threadVars>>

NextFail == NodeFails

SpecFail == InitFail /\ [][NextFail]_vars

(***************************************************************************)
(*                     Properties of max_flow.ipynb                        *)
(***************************************************************************)

\* The nodes that the nodes of S reach over the links, avoiding the nodes of X.
RECURSIVE ReachAvoiding(_, _)
ReachAvoiding(S, X) ==
    LET S2 == S \cup { m \in NODES \ X : \E n \in S : <<n, m>> \in ARCS }
    IN  IF S2 = S THEN S ELSE ReachAvoiding(S2, X)

\* C3: nodes 10 and 11 remain connected after the removal of any three other
\* nodes: for every set of three nodes of 1..9 a path from 10 to 11 avoids it.
C3_ConnectedAfterThreeFailures ==
    (pc = "network" /\ failed \subseteq 1..9 /\ Cardinality(failed) <= 3) =>
        SINK \in ReachAvoiding({SOURCE}, failed)

\* Three nodes have failed, among them neighbours of both end nodes.
C3_Witness ==
    /\ pc = "network" /\ Cardinality(failed) = 3
    /\ failed \cap Heads(SOURCE) # {} /\ failed \cap Heads(SINK) # {}

\* C4: the optimum of the model is 4: no assignment that satisfies the
\* constraints sends more than 4 units out of node 10 (and one sends 4, the
\* number printed).
C4_OptimumIsFour ==
    (pc \in {"solved", "printed", "hung"}) => num_paths <= 4

\* A solution with four paths has been found and printed.
C4_Witness ==
    /\ pc = "printed" /\ Feasible(flow) /\ num_paths = 4 /\ Len(paths) = 4

\* The nodes of a path.
NodesOn(path) == { path[i] : i \in 1..Len(path) }

\* C5: for every assignment that satisfies the constraints the traced paths
\* (one per arc out of node 10 with flow) each end at node 11, no node other
\* than 10 and 11 lies on two of them, and their number is the objective.
C5_TracedPathsDisjoint ==
    (pc \in {"printed", "hung"}) =>
        /\ pc = "printed"
        /\ \A i \in 1..Len(paths) :
              /\ paths[i][1] = SOURCE
              /\ Last(paths[i]) = SINK
              /\ \A k \in 1..(Len(paths[i]) - 1) :
                    flow[<<paths[i][k], paths[i][k + 1]>>] = 1
        /\ \A i, j \in 1..Len(paths) :
              i # j => NodesOn(paths[i]) \cap NodesOn(paths[j]) \subseteq {SOURCE, SINK}
        /\ Len(paths) = num_paths
        /\ Len(paths) = Cardinality({ n \in Heads(SOURCE) : flow[<<SOURCE, n>>] = 1 })

\* Two paths traced, one through at least two intermediate nodes, in a
\* solution that also carries flow out of the sink.
C5_Witness ==
    /\ pc = "printed" /\ Len(paths) >= 2
    /\ \E i \in 1..Len(paths) : Len(paths[i]) >= 4
    /\ OutSum(flow, SINK) >= 1

(***************************************************************************)
(*                  unitcommitment_indicators.ipynb                        *)
(* The model follows the rows of one unit u.  The rows that couple the     *)
(* units (demand, reserve) and the rows of padd hold no start or stop      *)
(* variable; the reserve row is kept with every other unit working, and    *)
(* the demand row follows from it with padd at its upper bound.  Costs are *)
(* counted in tenths, so that PEN = 0.1 is the integer 1.                  *)
(***************************************************************************)

NT == 7
NTYPES == 4
PERIODS == 0..(NT - 1)
TYPES == 0..(NTYPES - 1)

\* A Python list as a function of its 0-based index.
List(seq) == [i \in 0..(Len(seq) - 1) |-> seq[i + 1]]

LEN == List(<<6, 3, 3, 2, 4, 4, 2>>)
DEM == List(<<12000, 32000, 25000, 36000, 25000, 30000, 18000>>)
PMIN == List(<<750, 1000, 1200, 1800>>)
PMAX == List(<<1750, 1500, 2000, 3500>>)
CSTART == List(<<5000, 1600, 2400, 1200>>)
CMIN == List(<<2250, 1800, 3750, 4800>>)
AVAIL == List(<<10, 4, 8, 3>>)
ONMIN == List(<<3, 3, 3, 3>>)
DWMIN == List(<<3, 3, 3, 3>>)

\* PEN = 0.1, in tenths
PEN10 == 1

\* sum(AVAIL[0..i-1])
RECURSIVE AvailBefore(_)
AvailBefore(i) == IF i = 0 THEN 0 ELSE AvailBefore(i - 1) + AVAIL[i - 1]

\* UNITS = range(sum(AVAIL))
UNITS == 0..(AvailBefore(NTYPES) - 1)

\* TYPE = [i for i in TYPES for p in range(AVAIL[i])]
TYPE == [u \in UNITS |->
            CHOOSE i \in TYPES : AvailBefore(i) <= u /\ u < AvailBefore(i + 1)]

Binary == 0..1

\* (NT+t-1) % NT
Prev(t) == (NT + t - 1) % NT

\* start[u,t] >= work[u,t] - work[u,(NT+t-1) % NT]
StartLower_dropped(w, s, t) == TRUE

StartLower(w, s, t) == s[t] >= w[t] - w[Prev(t)]

\* start[u,t] <= work[u,t]
StartUpper(w, s, t) == s[t] <= w[t]

\* stop[u,t] >= work[u,(NT+t-1) % NT] - work[u,t]
StopLower(w, p, t) == p[t] >= w[Prev(t)] - w[t]

\* stop[u,t] <= 1 - work[u,t]
StopUpper(w, p, t) == p[t] <= 1 - w[t]

\* sum(x[j % NT] for j in range(lo, hi))
RECURSIVE SumRange(_, _, _)
SumRange(x, lo, hi) ==
    IF lo >= hi THEN 0 ELSE x[lo % NT] + SumRange(x, lo + 1, hi)

\* range(t+1, t+n): its first element and the end it stops before
RangeEnd_short(t, n) == t + n - 1

RangeEnd(t, n) == t + n

\* p.addIndicator(start[u,t] == 1,
\*                xp.Sum(stop[u,j % NT] for j in range(t+1,t+ONMIN[TYPE[u]])) <= 0)
OnIndicator(u, s, p, t) ==
    s[t] = 1 => SumRange(p, t + 1, RangeEnd(t, ONMIN[TYPE[u]])) <= 0

\* p.addIndicator(stop[u,t] == 1,
\*                xp.Sum(start[u,j % NT] for j in range(t+1,t+DWMIN[TYPE[u]])) <= 0)
DownIndicator(u, s, p, t) ==
    p[t] = 1 => SumRange(s, t + 1, RangeEnd(t, DWMIN[TYPE[u]])) <= 0

\* sum(PMAX[TYPE[v]] for v in range(n))
RECURSIVE PmaxOfUnitsBefore(_)
PmaxOfUnitsBefore(v) ==
    IF v = 0 THEN 0 ELSE PmaxOfUnitsBefore(v - 1) + PMAX[TYPE[v - 1]]

\* sum(PMAX[TYPE[v]] for v in UNITS)
TotalPmax == PmaxOfUnitsBefore(AvailBefore(NTYPES))

\* Security reserve of 20%, every unit other than u working:
\* xp.Sum(PMAX[TYPE[v]]*work[v,t] for v in UNITS) >= 1.20 * DEM[t]
Reserve(u, w, t) ==
    10 * (TotalPmax - PMAX[TYPE[u]] * (1 - w[t])) >= 12 * DEM[t]

\* The rows of unit u, with the indicator constraints when ind.
FeasibleUC(u, w, s, p, ind) ==
    /\ \A t \in PERIODS :
          /\ StartLower(w, s, t) /\ StartUpper(w, s, t)
          /\ StopLower(w, p, t) /\ StopUpper(w, p, t)
          /\ Reserve(u, w, t)
    /\ ind => \A t \in PERIODS : OnIndicator(u, s, p, t) /\ DownIndicator(u, s, p, t)

\* The terms of unit u in Cost + Penalty, in tenths (padd apart):
\* CSTART[TYPE[u]] * start[u,t] + LEN[t] * CMIN[TYPE[u]] * work[u,t]
\*   + PEN * stop[u,t]
RECURSIVE UnitObjective_no_penalty(_, _, _, _, _)
UnitObjective_no_penalty(u, w, s, p, n) ==
    IF n = 0 THEN 0
    ELSE UnitObjective_no_penalty(u, w, s, p, n - 1)
           + 10 * CSTART[TYPE[u]] * s[n - 1]
           + 10 * LEN[n - 1] * CMIN[TYPE[u]] * w[n - 1]

RECURSIVE UnitObjective(_, _, _, _, _)
UnitObjective(u, w, s, p, n) ==
    IF n = 0 THEN 0
    ELSE UnitObjective(u, w, s, p, n - 1)
           + 10 * CSTART[TYPE[u]] * s[n - 1]
           + 10 * LEN[n - 1] * CMIN[TYPE[u]] * w[n - 1]
           + PEN10 * p[n - 1]

AllZero == [t \in PERIODS |-> 0]

\* State after the basic model is built, the moment p.optimize() is entered:
\* the search has fixed no variable yet (a variable not yet fixed reads 0).
InitUC ==
    /\ pc = "optimize"
    /\ unit \in UNITS
    /\ work = AllZero /\ start = AllZero /\ stop = AllZero
    /\ period = 0
    /\ indicators = FALSE
    /\ TreeIdle /\ FlowIdle /\ QueensIdle /\ StatusIdle /\ ThreadsIdle

\* The periods a row of period t mentions.
LinkPeriods(t) == {t, Prev(t)}
IndicatorPeriods(u, t) ==
    {t} \cup { j % NT : j \in (t + 1)..(RangeEnd(t, ONMIN[TYPE[u]]) - 1) }
        \cup { j % NT : j \in (t + 1)..(RangeEnd(t, DWMIN[TYPE[u]]) - 1) }

\* The rows all of whose variables are fixed, the periods 0..k-1 being fixed.
ConsistentUC(u, w, s, p, ind, k) ==
    /\ \A t \in 0..(k - 1) :
          /\ StartUpper(w, s, t) /\ StopUpper(w, p, t) /\ Reserve(u, w, t)
          /\ LinkPeriods(t) \subseteq 0..(k - 1) =>
                StartLower(w, s, t) /\ StopLower(w, p, t)
    /\ ind => \A t \in 0..(k - 1) :
          IndicatorPeriods(u, t) \subseteq 0..(k - 1) =>
                OnIndicator(u, s, p, t) /\ DownIndicator(u, s, p, t)

\* The Optimizer's search fixes the binary variables of the next period,
\* keeping an assignment no row rules out.
BranchUC ==
    /\ pc = "optimize"
    /\ period < NT
    /\ \E wv \in Binary, sv \in Binary, pv \in Binary :
          LET w == [work EXCEPT ![period] = wv]
              s == [start EXCEPT ![period] = sv]
              p == [stop EXCEPT ![period] = pv]
          IN  /\ ConsistentUC(unit, w, s, p, indicators, period + 1)
              /\ work' = w /\ start' = s /\ stop' = p
    /\ period' = period + 1
    /\ UNCHANGED <<pc, unit, indicators, treeVars, flowVars, queenVars, statusVars, threadVars>>

\* p.optimize() returns with a solution of the problem.
OptimizeUC ==
    /\ pc = "optimize"
    /\ period = NT
    /\ FeasibleUC(unit, work, start, stop, indicators)
    /\ pc' = "solved"
    /\ UNCHANGED <<unit, work, start, stop, period, indicators, treeVars, flowVars, queenVars, statusVars, threadVars>>

\* The cell that adds the indicator constraints and re-optimizes: the search
\* starts again on the extended problem.
AddIndicators ==
    /\ pc = "solved"
    /\ ~indicators
    /\ indicators' = TRUE
    /\ work' = AllZero /\ start' = AllZero /\ stop' = AllZero
    /\ period' = 0
    /\ pc' = "optimize"
    /\ UNCHANGED <<unit, treeVars, flowVars, queenVars, statusVars, threadVars>>

NextUC == BranchUC \/ OptimizeUC \/ AddIndicators

SpecUC == InitUC /\ [][NextUC]_vars

(***************************************************************************)
(*            Properties of unitcommitment_indicators.ipynb                *)
(***************************************************************************)

\* No assignment of start and stop that satisfies the rows with the same work
\* costs less: a cost-minimal solution of the whole problem is cost-minimal
\* among the solutions that differ from it in the start and stop of unit u.
CostMinimal ==
    ~ \E s2 \in [PERIODS -> Binary] :
         /\ \A t \in PERIODS : StartLower(work, s2, t) /\ StartUpper(work, s2, t)
         /\ \E p2 \in [PERIODS -> Binary] :
               /\ FeasibleUC(unit, work, s2, p2, indicators)
               /\ UnitObjective(unit, work, s2, p2, NT)
                    < UnitObjective(unit, work, start, stop, NT)

\* C2: with the indicator constraints, a unit that changes state at period t
\* keeps the new state in periods t, t+1 and t+2 of the cyclic day.
C2_StateKeptThreePeriods ==
    (pc = "solved" /\ indicators) =>
        \A t \in PERIODS :
            work[t] # work[(t - 1) % NT] =>
                /\ work[(t + 1) % NT] = work[t]
                /\ work[(t + 2) % NT] = work[t]

\* A solution with indicators in which the unit is started and stopped.
C2_Witness ==
    /\ pc = "solved" /\ indicators
    /\ \E t \in PERIODS : work[t] = 1 /\ work[(t - 1) % NT] = 0
    /\ \E t \in PERIODS : work[t] = 0 /\ work[(t - 1) % NT] = 1

\* start[u,t] = 1 exactly when the unit is started in period t.
StartExact ==
    \A t \in PERIODS :
        start[t] = (IF work[t] = 1 /\ work[(t - 1) % NT] = 0 THEN 1 ELSE 0)

\* stop[u,t] = 1 exactly when the unit is stopped in period t.
StopExact ==
    \A t \in PERIODS :
        stop[t] = (IF work[(t - 1) % NT] = 1 /\ work[t] = 0 THEN 1 ELSE 0)

\* C6: with or without the indicator constraints, in every cost-minimal
\* solution start[u,t] = 1 exactly when work[u,t] = 1 and
\* work[u,(t-1) mod NT] = 0.
C6_StartExactAtMinimum ==
    pc = "solved" => (StartExact \/ ~CostMinimal)

\* A cost-minimal solution with indicators in which the unit is started while
\* it keeps working in another period.
C6_Witness ==
    /\ pc = "solved" /\ indicators /\ StartExact
    /\ \E t \in PERIODS : start[t] = 1
    /\ \E t \in PERIODS : work[t] = 1 /\ work[(t - 1) % NT] = 1
    /\ CostMinimal

\* C7: the penalty keeps stop at 0 when not needed: in every cost-minimal
\* solution stop[u,t] = 1 exactly when work[u,(t-1) mod NT] = 1 and
\* work[u,t] = 0.
C7_StopExactAtMinimum ==
    pc = "solved" => (StopExact \/ ~CostMinimal)

\* A cost-minimal solution of the basic model in which the unit is stopped
\* and stays off in a later period.
C7_Witness ==
    /\ pc = "solved" /\ ~indicators /\ StopExact
    /\ \E t \in PERIODS : stop[t] = 1
    /\ \E t \in PERIODS : work[t] = 0 /\ work[(t - 1) % NT] = 0
    /\ CostMinimal

(***************************************************************************)
(*                          n_queens notebook                              *)
(***************************************************************************)
\* n = 8
NQUEENS == 8

\* The notebook calls n "just a parameter": the boards 2..MaxBoard are run
\* besides the board of the notebook.
MaxBoard == 5

BoardSizes == (2..MaxBoard) \cup {NQUEENS}

\* range(a, b)
Range(a, b) == a .. (b - 1)

Max(a, b) == IF a >= b THEN a ELSE b
Min(a, b) == IF a <= b THEN a ELSE b

\* place[i, j] on the n x n numpy array: a negative index counts from the end.
At(pl, m, i, j) == pl[IF i < 0 THEN i + m ELSE i][IF j < 0 THEN j + m ELSE j]

\* xp.Sum(place[i,j] for j in N) <= 1
RowConstraint(pl, m, i) ==
    Cardinality({ j \in Range(0, m) : At(pl, m, i, j) = 1 }) <= 1

\* xp.Sum(place[i,j] for i in N) <= 1
ColConstraint(pl, m, j) ==
    Cardinality({ i \in Range(0, m) : At(pl, m, i, j) = 1 }) <= 1

\* for k in range(1, 2*n-2)
diagonal1_keys_short(m) == Range(1, 2 * m - 3)

diagonal1_keys(m) == Range(1, 2 * m - 2)

\* for k in range(2-n, n-1)
diagonal2_keys(m) == Range(2 - m, m - 1)

\* for j in range(max(0, k-n+1), min(k+1, n))
diagonal1_range(m, k) == Range(Max(0, k - m + 1), Min(k + 1, m))

\* for j in range(max(0, -k), min(n-k, n))
diagonal2_range(m, k) == Range(Max(0, -k), Min(m - k, m))

\* xp.Sum(place[k-j, j] for j in ...) <= 1
diagonal1(pl, m, k) ==
    Cardinality({ j \in diagonal1_range(m, k) : At(pl, m, k - j, j) = 1 }) <= 1

\* xp.Sum(place[k+j, j] for j in ...) <= 1
diagonal2(pl, m, k) ==
    Cardinality({ j \in diagonal2_range(m, k) : At(pl, m, k + j, j) = 1 }) <= 1

\* All the rows added to prob.
FeasibleQueens(pl, m) ==
    /\ \A i \in Range(0, m) : RowConstraint(pl, m, i)
    /\ \A j \in Range(0, m) : ColConstraint(pl, m, j)
    /\ \A k \in diagonal1_keys(m) : diagonal1(pl, m, k)
    /\ \A k \in diagonal2_keys(m) : diagonal2(pl, m, k)

\* prob = xp.problem(); place = prob.addVariables(n, n, vartype=xp.binary)
InitQueens ==
    /\ pc = "optimize"
    /\ nq \in BoardSizes
    /\ place = [i \in Range(0, nq) |-> [j \in Range(0, nq) |-> 0]]
    /\ row = 0
    /\ TreeIdle /\ FlowIdle /\ UCIdle /\ StatusIdle /\ ThreadsIdle

\* The rows that hold a variable of cell (i, j).  Every row is a "<= 1" over
\* binaries, so a row broken by the cells fixed so far stays broken.
ConsistentQueens(pl, m, i, cols) ==
    /\ RowConstraint(pl, m, i)
    /\ \A j \in cols :
        /\ ColConstraint(pl, m, j)
        /\ (i + j) \in diagonal1_keys(m) => diagonal1(pl, m, i + j)
        /\ (i - j) \in diagonal2_keys(m) => diagonal2(pl, m, i - j)

\* The row "at most one queen in row i", read on the candidate values alone.
PromisingQueens(cols) == Cardinality(cols) <= 1

\* One step of the search of prob.optimize(): the binaries of the next row
\* of the board are fixed, to any values that break no row of the problem.
BranchQueens ==
    /\ pc = "optimize"
    /\ row < nq
    /\ \E cols \in SUBSET Range(0, nq) :
        /\ PromisingQueens(cols)
        /\ place' = [place EXCEPT ![row] =
                        [j \in Range(0, nq) |-> IF j \in cols THEN 1 ELSE 0]]
        /\ ConsistentQueens(place', nq, row, cols)
    /\ row' = row + 1
    /\ UNCHANGED <<pc, nq, treeVars, flowVars, ucVars, statusVars, threadVars>>

\* prob.optimize() returns with a solution: every variable is fixed and
\* every row of the problem holds.
OptimizeQueens ==
    /\ pc = "optimize"
    /\ row = nq
    /\ FeasibleQueens(place, nq)
    /\ pc' = "solved"
    /\ UNCHANGED <<nq, place, row, treeVars, flowVars, ucVars, statusVars,
                   threadVars>>

NextQueens == BranchQueens \/ OptimizeQueens

SpecQueens == InitQueens /\ [][NextQueens]_vars

(***************************************************************************)
(*                   Properties of the n_queens notebook                   *)
(***************************************************************************)
\* The cells that hold a queen.
Queens == { c \in Range(0, nq) \X Range(0, nq) : place[c[1]][c[2]] = 1 }

\* Two cells a queen moves between in one move.
Attack(a, b) ==
    \/ a[1] = b[1]
    \/ a[2] = b[2]
    \/ a[1] + a[2] = b[1] + b[2]
    \/ a[1] - a[2] = b[1] - b[2]

\* C12: on every board, a 0/1 assignment that satisfies the row, column and
\* the two diagonal families has no two queens on a common row, column or
\* diagonal of either direction, and every index place[k-j, j] and
\* place[k+j, j] of the diagonal rows lies inside 0..n-1.
C12_NoTwoQueensAttack ==
    pc = "solved" =>
        /\ \A a \in Queens : \A b \in Queens : a # b => ~Attack(a, b)
        /\ \A k \in diagonal1_keys(nq) : \A j \in diagonal1_range(nq, k) :
              (k - j) \in 0..(nq - 1) /\ j \in 0..(nq - 1)
        /\ \A k \in diagonal2_keys(nq) : \A j \in diagonal2_range(nq, k) :
              (k + j) \in 0..(nq - 1) /\ j \in 0..(nq - 1)

C12_Witness ==
    /\ pc = "solved"
    /\ nq = NQUEENS
    /\ Cardinality(Queens) = NQUEENS
    /\ place[NQUEENS - 1][NQUEENS - 2] = 1

(***************************************************************************)
(*              What the notebooks run after optimize()                    *)
(* pairwise_distance.ipynb and the notebook that prints the statuses read  *)
(* the statuses of the solve; the n_queens notebook and max_flow.ipynb     *)
(* stand for the notebooks that never read them.                           *)
(***************************************************************************)
Notebooks == {"pairwise_distance", "print_statuses", "n_queens", "max_flow"}

\* xp.SolveStatus and xp.SolStatus
SolveStatuses == {"UNSTARTED", "STOPPED", "FAILED", "COMPLETED"}
SolStatuses   == {"NOTFOUND", "OPTIMAL", "FEASIBLE", "INFEASIBLE", "UNBOUNDED"}

\* pairwise_distance.ipynb, mutant: the solution is printed only if optimal.
AfterPairwiseDistance_optimal(solve, sol) ==
    IF sol \in {"OPTIMAL"}
      THEN <<134, 135, 136, 137, 138, 139, 140, 141>>
      ELSE <<134, 135, 143>>

\* pairwise_distance.ipynb: status = p.attributes.solstatus
\*   if status in {xp.SolStatus.FEASIBLE, xp.SolStatus.OPTIMAL}: ... else: ...
AfterPairwiseDistance(solve, sol) ==
    IF sol \in {"FEASIBLE", "OPTIMAL"}
      THEN <<134, 135, 136, 137, 138, 139, 140, 141>>
      ELSE <<134, 135, 143>>

\* if solvestatus == xp.SolveStatus.COMPLETED: print(...) else: print(...)
\* print("Solution:", p.getSolution())
AfterPrintStatuses(solve, sol) ==
    IF solve = "COMPLETED" THEN <<135, 136, 144>> ELSE <<135, 138, 144>>

\* n_queens: print(objval); xsol = prob.getSolution(place); for i ... for j ...
AfterNQueens(solve, sol) == <<133, 134, 135, 136, 137, 138>>

\* max_flow.ipynb: num_paths = int(p.attributes.objval); print; sol = ...
AfterMaxFlow(solve, sol) == <<203, 204, 207, 208, 209>>

\* The statements a notebook runs after optimize() has returned.
AfterOptimize(nb, solve, sol) ==
    CASE nb = "pairwise_distance" -> AfterPairwiseDistance(solve, sol)
      [] nb = "print_statuses"    -> AfterPrintStatuses(solve, sol)
      [] nb = "n_queens"          -> AfterNQueens(solve, sol)
      [] nb = "max_flow"          -> AfterMaxFlow(solve, sol)

\* The problem of a notebook is built; optimize() has not been called.
InitStatus ==
    /\ pc = "built"
    /\ notebook \in Notebooks
    /\ solvestatus = "UNSTARTED"
    /\ solstatus = "NOTFOUND"
    /\ optimize_calls = 0
    /\ executed = <<>>
    /\ TreeIdle /\ FlowIdle /\ UCIdle /\ QueensIdle /\ ThreadsIdle

\* p.optimize(): the Optimizer has started the solve, and returns with any
\* other solve status and any solution status.
OptimizeStatus ==
    /\ pc = "built"
    /\ \E solve \in SolveStatuses \ {"UNSTARTED"}, sol \in SolStatuses :
          solvestatus' = solve /\ solstatus' = sol
    /\ optimize_calls' = optimize_calls + 1
    /\ pc' = "optimized"
    /\ UNCHANGED <<notebook, executed, treeVars, flowVars, ucVars, queenVars,
                   threadVars>>

\* The rest of the cell runs.
RunAfterOptimize ==
    /\ pc = "optimized"
    /\ executed' = AfterOptimize(notebook, solvestatus, solstatus)
    /\ pc' = "done"
    /\ UNCHANGED <<notebook, solvestatus, solstatus, optimize_calls, treeVars,
                   flowVars, ucVars, queenVars, threadVars>>

NextStatus == OptimizeStatus \/ RunAfterOptimize

SpecStatus == InitStatus /\ [][NextStatus]_vars

(***************************************************************************)
(*                 Properties of the code after optimize()                 *)
(***************************************************************************)
\* The lines a run has executed.
Lines(e) == { e[i] : i \in DOMAIN e }

\* C13 as stated: in every notebook, what is executed after optimize() does
\* not depend on the solve status or the solution status.
C13_ExecutedIgnoresStatus ==
    pc = "done" =>
        \A s \in SolveStatuses, t \in SolStatuses :
            executed = AfterOptimize(notebook, s, t)

\* C13 as amended: optimize() is called once, without a retry;
\* pairwise_distance.ipynb prints the solution when the solution status is
\* FEASIBLE or OPTIMAL and its own "No solution found" message otherwise;
\* the notebook that prints the statuses prints the solution status when the
\* solve status is COMPLETED and the solve status otherwise, and then the
\* solution; the other notebooks run the same statements whatever the status.
C13_StatusSelectsPrintsOnly ==
    pc = "done" =>
        /\ optimize_calls = 1
        /\ notebook = "pairwise_distance" =>
              /\ (solstatus \in {"FEASIBLE", "OPTIMAL"}) <=> (136 \in Lines(executed))
              /\ (solstatus \notin {"FEASIBLE", "OPTIMAL"}) <=> (143 \in Lines(executed))
        /\ notebook = "print_statuses" =>
              /\ (solvestatus = "COMPLETED") <=> (136 \in Lines(executed))
              /\ (solvestatus # "COMPLETED") <=> (138 \in Lines(executed))
              /\ 144 \in Lines(executed)
        /\ notebook \notin {"pairwise_distance", "print_statuses"} =>
              \A s \in SolveStatuses, t \in SolStatuses :
                  executed = AfterOptimize(notebook, s, t)

C13_Witness ==
    /\ pc = "done"
    /\ notebook = "pairwise_distance"
    /\ solvestatus = "STOPPED"
    /\ solstatus = "FEASIBLE"
    /\ executed = <<134, 135, 136, 137, 138, 139, 140, 141>>

(***************************************************************************)
(*                 Properties of callback_newnode.ipynb                    *)
(***************************************************************************)

\* Each (parent, side) pair is reported at most once.
SlotsReportedOnce ==
    \A i, j \in 1..Len(calls) :
        (calls[i].parent = calls[j].parent /\ calls[i].branch = calls[j].branch)
            => i = j

\* The reported newnode ids are pairwise distinct and different from 1.
NewnodesDistinct ==
    /\ \A i, j \in 1..Len(calls) : calls[i].newnode = calls[j].newnode => i = j
    /\ \A i \in 1..Len(calls) : calls[i].newnode # 1

\* C1: after any sequence of callbacks in which each (parent, side) pair is
\* reported at most once, left and right hold exactly the reported tree: a
\* callback with branch 0 is found in left, any other in right, and neither
\* dictionary has an entry that no callback reported.
C1_LeftRightAreReportedTree ==
    (pc \in {"optimize", "solved", "counted"} /\ SlotsReportedOnce) =>
        /\ \A i \in 1..Len(calls) :
              IF calls[i].branch = 0
                THEN /\ calls[i].parent \in DOMAIN left
                     /\ left[calls[i].parent] = calls[i].newnode
                ELSE /\ calls[i].parent \in DOMAIN right
                     /\ right[calls[i].parent] = calls[i].newnode
        /\ \A p \in DOMAIN left : \E i \in 1..Len(calls) :
              calls[i].parent = p /\ calls[i].branch = 0
        /\ \A p \in DOMAIN right : \E i \in 1..Len(calls) :
              calls[i].parent = p /\ calls[i].branch # 0

\* A tree with both a left and a right child reported, three callbacks in.
C1_Witness ==
    /\ Len(calls) >= 3 /\ SlotsReportedOnce
    /\ DOMAIN left # {} /\ DOMAIN right # {}

\* C8: nodes are numbered in the order they are found: the root has label 1,
\* the node of the k-th callback has label k+1 (newnode ids pairwise distinct
\* and not 1), and the labels are exactly 1..len(nodes), none used twice.
C8_LabelsInOrderFound ==
    (pc \in {"optimize", "solved", "counted"} /\ NewnodesDistinct) =>
        /\ 1 \in DOMAIN nodes /\ nodes[1] = 1
        /\ \A k \in 1..Len(calls) :
              /\ calls[k].newnode \in DOMAIN nodes
              /\ nodes[calls[k].newnode] = k + 1
        /\ {nodes[x] : x \in DOMAIN nodes} = 1..DictLen(nodes)
        /\ \A x, y \in DOMAIN nodes : nodes[x] = nodes[y] => x = y

\* Four nodes labelled, the last callback's node carrying label 4.
C8_Witness ==
    /\ Len(calls) = 3 /\ NewnodesDistinct
    /\ nodes[calls[3].newnode] = 4

\* The callback that has just been served in a step.
LastCall == calls'[Len(calls')]

\* d2 is d with exactly the entry of key k added or overwritten.
OnlyKeySet(d, d2, k) ==
    /\ DOMAIN d2 = DOMAIN d \cup {k}
    /\ \A x \in DOMAIN d \ {k} : d2[x] = d[x]

\* C9: storeBBnode only logs the event: a call sets exactly the entry newnode
\* of nodes and exactly the entry parent of one of left/right (left when
\* branch is 0, right otherwise), and leaves the problem, T, card_subtree,
\* pos and the other child dictionary unchanged.
C9_CallbackOnlyLogs ==
    [][ (calls' # calls) =>
          /\ OnlyKeySet(nodes, nodes', LastCall.newnode)
          /\ IF LastCall.branch = 0
               THEN /\ OnlyKeySet(left, left', LastCall.parent)
                    /\ left'[LastCall.parent] = LastCall.newnode
                    /\ right' = right
               ELSE /\ OnlyKeySet(right, right', LastCall.parent)
                    /\ right'[LastCall.parent] = LastCall.newnode
                    /\ left' = left
          /\ UNCHANGED <<prob, T, card_subtree, pos>> ]_vars

\* Callbacks of both sides have been served and the graph is still empty.
C9_Witness ==
    /\ pc = "optimize" /\ Len(calls) >= 2
    /\ \E i, j \in 1..Len(calls) : calls[i].branch = 0 /\ calls[j].branch = 1
    /\ T.nodes = {}

\* The children of the nodes of S.
ChildrenOf(S) ==
    {left[p] : p \in S \cap DOMAIN left} \cup {right[p] : p \in S \cap DOMAIN right}

\* The nodes reachable from the nodes of S through left/right.
RECURSIVE ReachableFrom(_)
ReachableFrom(S) ==
    LET S2 == S \cup ChildrenOf(S)
    IN  IF S2 = S THEN S ELSE ReachableFrom(S2)

\* C10: after postorder_count(1), card_subtree[v] is the number of nodes of
\* the subtree rooted at v for every node v reachable from 1 (1 for a leaf,
\* 1 + the children's cardinalities otherwise), and card_subtree has no
\* entry for any other node.
C10_CardSubtreeIsSubtreeSize ==
    pc = "counted" =>
        /\ DOMAIN card_subtree = ReachableFrom({1})
        /\ \A v \in ReachableFrom({1}) :
              /\ card_subtree[v] = Cardinality(ReachableFrom({v}))
              /\ card_subtree[v] =
                    1 + (IF v \in DOMAIN left THEN card_subtree[left[v]] ELSE 0)
                      + (IF v \in DOMAIN right THEN card_subtree[right[v]] ELSE 0)

\* A counted tree in which the root has two children and one of them a child.
C10_Witness ==
    /\ pc = "counted"
    /\ 1 \in DOMAIN left /\ 1 \in DOMAIN right
    /\ card_subtree[1] >= 4
    /\ \E v \in DOMAIN card_subtree : v # 1 /\ card_subtree[v] >= 2

\* The (parent, child) pairs of left and right among the nodes of S, as
\* undirected edges.
TreeEdges(S) ==
    {{p, left[p]} : p \in S \cap DOMAIN left} \cup
    {{p, right[p]} : p \in S \cap DOMAIN right}

\* C11: after postorder_count(1) and setpos(T, 1, 0.5, 1, 0) on the empty
\* graph, T holds exactly the nodes reachable from 1 through left/right, each
\* with a 'pos' attribute, and exactly the (parent, child) pairs among them as
\* edges: a tree with one edge less than it has nodes.
C11_GraphIsReportedTree ==
    (pc \in {"placed", "drawn"}) =>
        /\ T.nodes = ReachableFrom({1})
        /\ DOMAIN T.pos = T.nodes
        /\ T.edges = TreeEdges(ReachableFrom({1}))
        /\ Cardinality(T.edges) = Cardinality(T.nodes) - 1
        /\ pc = "drawn" => pos = T.pos

\* A laid-out tree of at least four nodes with both children at the root and
\* a node two levels down.
C11_Witness ==
    /\ pc = "drawn"
    /\ Cardinality(T.nodes) >= 4
    /\ 1 \in DOMAIN left /\ 1 \in DOMAIN right
    /\ \E v \in DOMAIN pos : pos[v][2] = -1

\* ---- storeBBnode called from several threads

\* C14 as stated: distinct nodes have distinct labels under every
\* interleaving of the invocations of storeBBnode, whatever the threads
\* control.
C14_LabelsDistinctAnyInterleaving ==
    \A a \in DOMAIN nodes : \A b \in DOMAIN nodes :
        a # b => nodes[a] # nodes[b]

\* C14 as amended: with threads = 1, the setting of the notebook, no two
\* invocations overlap and distinct nodes have distinct labels.
C14_LabelsDistinctOneThread ==
    prob.threads = 1 =>
        /\ Cardinality(running) <= 1
        /\ \A a \in DOMAIN nodes : \A b \in DOMAIN nodes :
              a # b => nodes[a] # nodes[b]

C14_Witness ==
    /\ pc = "solved"
    /\ prob.threads = THREADS
    /\ Len(calls) >= 3
    /\ DictLen(nodes) = Len(calls) + 1
    /\ \E a \in DOMAIN nodes : nodes[a] = DictLen(nodes)

====
